---- MODULE Spec2Model ----
(***************************************************************************)
(* A model of the subcommand dispatcher of issue9/cmdopt (src/cmdopt.go,   *)
(* lines 1-237, with Help, Commands and Command of src/command.go).        *)
(*                                                                         *)
(* Strings are sequences of one-character strings, so that the length of a *)
(* name, its first byte, its lexicographic order and the substitution of a *)
(* placeholder are computed as the code computes them.                     *)
(***************************************************************************)
EXTENDS Integers, Sequences, FiniteSets, TLC

VARIABLES
    cmd,          \* opt.cmd: the top-level command (exec closure and usage)
    commands,     \* opt.commands: name -> command entry
    maxCmdLen,    \* opt.maxCmdLen
    execed,       \* opt.execed
    errHandling,  \* opt.errHandling
    notFound,     \* opt.notFound # nil
    sink,         \* the bytes received by the writer given to the constructor
    output,       \* opt.output: 1 is the constructor's writer, 2 is SetOutput's
    sink2,        \* the bytes received by the writer given to SetOutput
    result,       \* how the last call on the dispatcher ended
    last          \* what the last call did (its inputs, its route, its calls)

vars ==
    <<cmd, commands, maxCmdLen, execed, errHandling, notFound, sink, output, sink2,
      result, last>>

-----------------------------------------------------------------------------
(* Bounds of the model.                                                    *)

MaxCmds == 2      \* at most this many entries in the registry
MaxArgs == 2      \* at most this many elements in the vector given to Exec

-----------------------------------------------------------------------------
(* Bytes and strings.                                                      *)

\* The byte value of every character the model uses (ASCII).
ByteOf ==
    ("\t" :> 9) @@ ("\n" :> 10) @@ (" " :> 32) @@ ("!" :> 33) @@ ("-" :> 45) @@
    ("0" :> 48) @@ ("1" :> 49) @@ ("5" :> 53) @@ ("=" :> 61) @@ ("?" :> 63) @@
    ("F" :> 70) @@ ("H" :> 72) @@
    ("a" :> 97) @@ ("b" :> 98) @@ ("c" :> 99) @@ ("d" :> 100) @@ ("e" :> 101) @@
    ("f" :> 102) @@ ("g" :> 103) @@ ("h" :> 104) @@ ("i" :> 105) @@
    ("l" :> 108) @@ ("m" :> 109) @@ ("n" :> 110) @@ ("o" :> 111) @@
    ("p" :> 112) @@ ("s" :> 115) @@ ("t" :> 116) @@ ("u" :> 117) @@
    ("v" :> 118) @@ ("x" :> 120) @@ ("y" :> 121) @@ ("{" :> 123) @@ ("}" :> 125)

Empty == <<>>

\* strings.HasPrefix(s, p)
HasPrefix(s, p) == Len(s) >= Len(p) /\ SubSeq(s, 1, Len(p)) = p

\* Go's s < t on strings: bytewise lexicographic order.
RECURSIVE StrLess(_, _)
StrLess(s, t) ==
    IF t = Empty THEN FALSE
    ELSE IF s = Empty THEN TRUE
    ELSE IF ByteOf[Head(s)] < ByteOf[Head(t)] THEN TRUE
    ELSE IF ByteOf[Head(s)] > ByteOf[Head(t)] THEN FALSE
    ELSE StrLess(Tail(s), Tail(t))

\* strings.Repeat(s, n); a negative count panics in Go and is not produced here.
RECURSIVE Repeat(_, _)
Repeat(s, n) == IF n <= 0 THEN Empty ELSE s \o Repeat(s, n - 1)

\* strings.ReplaceAll(s, old, new) for a non-empty old.
RECURSIVE ReplaceAll(_, _, _)
ReplaceAll(s, old, new) ==
    IF s = Empty THEN Empty
    ELSE IF HasPrefix(s, old)
         THEN new \o ReplaceAll(SubSeq(s, Len(old) + 1, Len(s)), old, new)
         ELSE <<Head(s)>> \o ReplaceAll(Tail(s), old, new)

FlagsPlaceholder == <<"{", "{", "f", "l", "a", "g", "s", "}", "}">>
CommandsPlaceholder == <<"{", "{", "c", "o", "m", "m", "a", "n", "d", "s", "}", "}">>

-----------------------------------------------------------------------------
(* The flag package as the dispatcher uses it: flag.NewFlagSet, FlagSet.Parse *)
(* with its error handling, and FlagSet.PrintDefaults.  A flag set is its     *)
(* definition (flag name -> type), the current values and the positional      *)
(* arguments left by Parse.                                                   *)

ErrorHandlings == {"ContinueOnError", "PanicOnError"}

FlagDefault(type) == IF type = "bool" THEN FALSE ELSE 0

\* flag.NewFlagSet followed by the binder's registrations def.
NewFlagSet(def) ==
    [def |-> def, vals |-> [n \in DOMAIN def |-> FlagDefault(def[n])], args |-> <<>>]

\* The flag sets a binder callback can build.
NoFlags == [n \in {} |-> "bool"]
VFlag == (<<"v">> :> "bool")
IntFlag == (<<"i">> :> "int")

\* strconv.ParseBool
ParseBool(s) ==
    IF s \in {<<"1">>, <<"t">>, <<"t", "r", "u", "e">>} THEN [ok |-> TRUE, v |-> TRUE]
    ELSE IF s \in {<<"0">>, <<"f">>, <<"f", "a", "l", "s", "e">>} THEN [ok |-> TRUE, v |-> FALSE]
    ELSE [ok |-> FALSE, v |-> FALSE]

IsDigit(c) == ByteOf[c] >= 48 /\ ByteOf[c] <= 57

\* strconv.ParseInt on an unsigned decimal literal.
RECURSIVE DecimalValue(_, _)
DecimalValue(s, acc) ==
    IF s = Empty THEN acc ELSE DecimalValue(Tail(s), 10 * acc + (ByteOf[Head(s)] - 48))

ParseInt(s) ==
    IF s # Empty /\ \A i \in 1..Len(s) : IsDigit(s[i])
    THEN [ok |-> TRUE, v |-> DecimalValue(s, 0)]
    ELSE [ok |-> FALSE, v |-> 0]

\* The index of the first "=" of name at position 2 or later, 0 when there is none.
EqualsAt(name) ==
    IF \E i \in 2..Len(name) : name[i] = "="
    THEN CHOOSE i \in 2..Len(name) : name[i] = "=" /\ \A j \in 2..(i - 1) : name[j] # "="
    ELSE 0

HelpNames == {<<"h">>, <<"h", "e", "l", "p">>}

\* FlagSet.parseOne: [seen, err, fs, rest, msg, usage]; msg says that failf
\* printed its message, usage that the flag set's Usage callback was called.
ParseStop(fs, rest) ==
    [seen |-> FALSE, err |-> "nil", fs |-> fs, rest |-> rest, msg |-> FALSE, usage |-> FALSE]
ParseFail(fs, rest) ==
    [seen |-> FALSE, err |-> "ErrParse", fs |-> fs, rest |-> rest, msg |-> TRUE, usage |-> TRUE]
ParseHelp(fs, rest) ==
    [seen |-> FALSE, err |-> "ErrHelp", fs |-> fs, rest |-> rest, msg |-> FALSE, usage |-> TRUE]
ParseSeen(fs, rest, name, v) ==
    [seen |-> TRUE, err |-> "nil", fs |-> [fs EXCEPT !.vals[name] = v], rest |-> rest,
     msg |-> FALSE, usage |-> FALSE]

parseOne(fs, args) ==
    IF args = <<>> THEN ParseStop(fs, args)
    ELSE LET s == Head(args) IN
      IF Len(s) < 2 \/ s[1] # "-" THEN ParseStop(fs, args)
      ELSE LET numMinuses == IF s[2] = "-" THEN 2 ELSE 1 IN
        IF numMinuses = 2 /\ Len(s) = 2 THEN ParseStop(fs, Tail(args))
        ELSE LET full == SubSeq(s, numMinuses + 1, Len(s)) IN
          IF full = Empty \/ full[1] = "-" \/ full[1] = "=" THEN ParseFail(fs, args)
          ELSE LET eq == EqualsAt(full)
                   hasValue == eq # 0
                   name == IF hasValue THEN SubSeq(full, 1, eq - 1) ELSE full
                   value == IF hasValue THEN SubSeq(full, eq + 1, Len(full)) ELSE Empty
                   rest == Tail(args)
               IN
            IF name \notin DOMAIN fs.def
            THEN IF name \in HelpNames THEN ParseHelp(fs, rest) ELSE ParseFail(fs, rest)
            ELSE IF fs.def[name] = "bool"
            THEN IF hasValue
                 THEN IF ParseBool(value).ok
                      THEN ParseSeen(fs, rest, name, ParseBool(value).v)
                      ELSE ParseFail(fs, rest)
                 ELSE ParseSeen(fs, rest, name, TRUE)
            ELSE LET takeNext == ~hasValue /\ rest # <<>>
                     value2 == IF takeNext THEN Head(rest) ELSE value
                     rest2 == IF takeNext THEN Tail(rest) ELSE rest
                 IN IF ~hasValue /\ ~takeNext THEN ParseFail(fs, rest)
                    ELSE IF ParseInt(value2).ok
                         THEN ParseSeen(fs, rest2, name, ParseInt(value2).v)
                         ELSE ParseFail(fs, rest2)

\* FlagSet.Parse(arguments) under the flag set's error handling:
\* [err, panicked, fs, msg, usage].  With PanicOnError a failure panics
\* instead of returning.
RECURSIVE parseLoop(_, _, _)
parseLoop(fs, args, eh) ==
    LET one == parseOne(fs, args) IN
    IF one.seen THEN parseLoop(one.fs, one.rest, eh)
    ELSE [err |-> one.err,
          panicked |-> one.err # "nil" /\ eh = "PanicOnError",
          fs |-> [one.fs EXCEPT !.args = one.rest],
          msg |-> one.msg,
          usage |-> one.usage]

Parse(fs, arguments, eh) == parseLoop(fs, arguments, eh)

\* The message failf prints before it calls Usage (abbreviated to one line).
FlagErrText == <<"!", "\n">>

\* FlagSet.PrintDefaults for the flags of this model, which all keep their
\* zero default: "  -v\tv\n" for the bool flag, "  -i int\n    \ti\n" for the int flag.
PrintDefaults(fs) ==
    (IF <<"i">> \in DOMAIN fs.def
     THEN <<" ", " ", "-", "i", " ", "i", "n", "t", "\n", " ", " ", " ", " ", "\t", "i", "\n">>
     ELSE Empty)
    \o
    (IF <<"v">> \in DOMAIN fs.def
     THEN <<" ", " ", "-", "v", "\t", "v", "\n">>
     ELSE Empty)

getFlags(fs) == PrintDefaults(fs)

-----------------------------------------------------------------------------
(* The registry: Commands and Command.                                     *)

\* sort.Strings, as an insertion sort.
RECURSIVE Insert(_, _)
Insert(sorted, k) ==
    IF sorted = <<>> THEN <<k>>
    ELSE IF StrLess(k, Head(sorted)) THEN <<k>> \o sorted
    ELSE <<Head(sorted)>> \o Insert(Tail(sorted), k)

SortStringsNot(keys) == keys

RECURSIVE SortStrings(_)
SortStrings(keys) ==
    IF keys = <<>> THEN <<>> ELSE Insert(SortStrings(Tail(keys)), Head(keys))

\* for key := range opt.commands: the keys in one of the orders the map may
\* give them; Commands sorts whichever order it gets.
RECURSIVE RangeKeys(_)
RangeKeys(keys) ==
    IF keys = {} THEN <<>>
    ELSE LET k == CHOOSE x \in keys : TRUE IN <<k>> \o RangeKeys(keys \ {k})

Commands(cmds) == SortStrings(RangeKeys(DOMAIN cmds))

\* Command(name): (title, usage, found)
Command(cmds, name) ==
    IF name \in DOMAIN cmds
    THEN [title |-> cmds[name].title, usage |-> cmds[name].usage, found |-> TRUE]
    ELSE [title |-> Empty, usage |-> Empty, found |-> FALSE]

-----------------------------------------------------------------------------
(* The usage text.                                                         *)

\* The usageTemplate given to the constructor: "H\n{{flags}}{{commands}}F".
UsageTemplate == <<"H", "\n">> \o FlagsPlaceholder \o CommandsPlaceholder \o <<"F">>

\* CommandLines with a gutter of two spaces.
RECURSIVE CommandLinesNarrow(_, _, _)
CommandLinesNarrow(names, cmds, maxLen) ==
    IF names = <<>> THEN Empty
    ELSE LET name == Head(names)
             cmdName == name \o Repeat(<<" ">>, maxLen + 2 - Len(name))
         IN <<" ", " ">> \o cmdName \o Command(cmds, name).title \o <<"\n">>
            \o CommandLinesNarrow(Tail(names), cmds, maxLen)

\* The loop of buildUsage over Commands(): one line per command.
RECURSIVE CommandLines(_, _, _)
CommandLines(names, cmds, maxLen) ==
    IF names = <<>> THEN Empty
    ELSE LET name == Head(names)
             cmdName == name \o Repeat(<<" ">>, maxLen + 3 - Len(name))
         IN <<" ", " ">> \o cmdName \o Command(cmds, name).title \o <<"\n">>
            \o CommandLines(Tail(names), cmds, maxLen)

\* buildUsage(tpl, fs): the text it stores in opt.cmd.usage.
buildUsage(tpl, fs, cmds, maxLen) ==
    LET flags == getFlags(fs)
        list == CommandLines(Commands(cmds), cmds, maxLen)
        u1 == ReplaceAll(tpl, FlagsPlaceholder, flags)
        u2 == ReplaceAll(u1, CommandsPlaceholder, list)
    IN IF Len(u2) > 0 /\ u2[Len(u2)] # "\n" THEN u2 \o <<"\n">> ELSE u2

-----------------------------------------------------------------------------
(* Handlers and exec closures.                                             *)

\* Who a handler belongs to: the top-level command or the subcommand name.
Top == [top |-> TRUE, name |-> Empty]
Sub(name) == [top |-> FALSE, name |-> name]

\* What a handler (DoFunc, or the exec given to NewPlain) can do once it is
\* called: return nil, return an error of its own, or panic.
HandlerResults == {"nil", "ErrDo", "panic"}

\* The text of the not-found formatter for a name: "? " followed by the name.
NotFoundText(name) == <<"?", " ">> \o name

\* Is name one of the elements of the sequence names?
Listed(names, name) == \E i \in DOMAIN names : names[i] = name

\* HelpDo writing the title of a registered command instead of its usage.
HelpDoShowsTitle(who, fs, hres) ==
    LET fails == hres = "ErrWrite"
        show == IF fs.args = <<>> THEN "usage"
                ELSE IF Listed(Commands(commands), fs.args[1]) THEN "command"
                ELSE IF notFound THEN "notfound"
                ELSE "nil call"
        text == IF show = "usage"
                THEN buildUsage(UsageTemplate, cmd.exec.fs, commands, maxCmdLen)
                ELSE IF show = "command" THEN commands[fs.args[1]].title
                ELSE IF show = "notfound" THEN NotFoundText(fs.args[1])
                ELSE Empty
        ret == IF show = "nil call" THEN "panic"
               ELSE IF show = "notfound" /\ fails THEN "ErrWrite"
               ELSE "nil"
    IN [result |-> IF ret = "panic" THEN "panic:handler" ELSE ret,
        out    |-> IF fails THEN Empty ELSE text,
        fs     |-> fs,
        parsed |-> <<>>,
        calls  |-> <<[who |-> who, vals |-> fs.vals, args |-> fs.args, ret |-> ret,
                      fails |-> fails]>>]

\* The DoFunc of the command registered by Help, called after its flag set fs
\* parsed the arguments.  hres = "ErrWrite" says that its writer fails.  With
\* no positional argument the top-level flag set's Usage writes Usage() to the
\* dispatcher's output and its error is dropped; with a registered name that
\* command's Usage writes its usage text likewise; otherwise the handler
\* writes opt.notFound(name) to its writer and returns the write's error, and
\* calling the nil opt.notFound panics.
HelpDo(who, fs, hres) ==
    LET fails == hres = "ErrWrite"
        show == IF fs.args = <<>> THEN "usage"
                ELSE IF Listed(Commands(commands), fs.args[1]) THEN "command"
                ELSE IF notFound THEN "notfound"
                ELSE "nil call"
        text == IF show = "usage"
                THEN buildUsage(UsageTemplate, cmd.exec.fs, commands, maxCmdLen)
                ELSE IF show = "command" THEN commands[fs.args[1]].usage
                ELSE IF show = "notfound" THEN NotFoundText(fs.args[1])
                ELSE Empty
        ret == IF show = "nil call" THEN "panic"
               ELSE IF show = "notfound" /\ fails THEN "ErrWrite"
               ELSE "nil"
    IN [result |-> IF ret = "panic" THEN "panic:handler" ELSE ret,
        out    |-> IF fails THEN Empty ELSE text,
        fs     |-> fs,
        parsed |-> <<>>,
        calls  |-> <<[who |-> who, vals |-> fs.vals, args |-> fs.args, ret |-> ret,
                      fails |-> fails]>>]

\* The bytes a handler writes to the io.Writer it is given.
DoText(who) == IF who.top THEN <<"d", "e", "f">> ELSE <<"c", "=">> \o who.name

\* A call of the DoFunc do for who.  "noop" is the constructor's default
\* func(w io.Writer) error { return nil }.
CallDo(do, who, fs, hres) ==
    IF do = "help" THEN HelpDo(who, fs, hres)
    ELSE
    [result |-> IF do = "noop" THEN "nil"
                ELSE IF hres = "panic" THEN "panic:handler" ELSE hres,
     out    |-> IF do = "noop" \/ hres = "ErrWrite" THEN Empty ELSE DoText(who),
     fs     |-> fs,
     parsed |-> <<>>,
     calls  |-> <<[who |-> who, vals |-> fs.vals, args |-> fs.args,
                   ret |-> IF do = "noop" THEN "nil" ELSE hres]>>]

\* do2exec calling the handler whatever Parse returned.
do2execRunsAnyway(e, who, usageText, args, hres) ==
    LET p == Parse(e.fs, args, errHandling)
        r == CallDo(e.do, who, p.fs, hres)
    IN [r EXCEPT !.parsed = <<[who |-> who, args |-> args, err |-> p.err]>>]
       @@ [diag |-> Empty, w |-> e.w]

\* The closure do2exec(do, fs) applied to (w, args): usageText is what the
\* flag set's Usage callback writes, to the dispatcher's current output, when
\* Parse calls it.  diag is the message Parse prints before that, to the
\* writer e.w that fs.SetOutput gave the flag set when it was created.
do2exec(e, who, usageText, args, hres) ==
    LET p == Parse(e.fs, args, errHandling)
        diag == IF p.msg THEN FlagErrText ELSE Empty
        told == IF p.usage THEN usageText ELSE Empty
        parsed == <<[who |-> who, args |-> args, err |-> p.err]>>
    IN IF p.err # "nil"
       THEN [result |-> IF p.panicked THEN "panic:parse" ELSE p.err,
             out |-> told, fs |-> p.fs, parsed |-> parsed, calls |-> <<>>,
             diag |-> diag, w |-> e.w]
       ELSE LET r == CallDo(e.do, who, p.fs, hres)
            IN [r EXCEPT !.out = told \o r.out, !.parsed = parsed]
               @@ [diag |-> diag, w |-> e.w]

\* cmd.exec(w, args) for a command entry: the closure of do2exec for a command
\* registered through New (and for the top-level command), the caller's own
\* function for one registered through NewPlain.
CallExec(e, who, usageText, args, hres) ==
    IF e.kind = "do2exec" THEN do2exec(e, who, usageText, args, hres)
    ELSE [result |-> IF hres = "panic" THEN "panic:handler" ELSE hres,
          out    |-> IF hres = "ErrWrite" THEN Empty ELSE DoText(who),
          fs     |-> e.fs,
          parsed |-> <<>>,
          calls  |-> <<[who |-> who, vals |-> e.fs.vals, args |-> args, ret |-> hres]>>,
          diag   |-> Empty,
          w      |-> e.w]

-----------------------------------------------------------------------------
(* The inputs of the model.                                                *)

\* Names given to New and NewPlain: "", "-v", "ab" and "b".
Names == {Empty, <<"-", "v">>, <<"a", "b">>, <<"b">>}

\* Titles: "x" and "yy".
Titles == {<<"x">>, <<"y", "y">>}

\* Usage texts given to New: "" and "u\n{{flags}}".
NewUsages == {Empty, <<"u", "\n">> \o FlagsPlaceholder}

\* Usage texts given to NewPlain: "" and "p".
PlainUsages == {Empty, <<"p">>}

\* The CommandFunc given to New: nil, or a binder that registers -v.
NilBinder == [nil |-> TRUE, def |-> NoFlags, do |-> "sub"]
Binders == {NilBinder, [nil |-> FALSE, def |-> VFlag, do |-> "sub"]}

\* The CommandFunc Help gives to New: it binds no flag and returns the help
\* handler.
HelpBinder == [nil |-> FALSE, def |-> NoFlags, do |-> "help"]

\* The CommandFunc given to the constructor: nil, or a binder that registers -i.
TopBinders == {NilBinder, [nil |-> FALSE, def |-> IntFlag, do |-> "top"]}

\* The elements of an argument vector: "", "-v", "-h", "-i=5" and "b" in the
\* first place, all but "" after it.
Tokens == {Empty, <<"-", "v">>, <<"-", "h">>, <<"-", "i", "=", "5">>, <<"b">>}
RestTokens == Tokens \ {Empty}

RECURSIVE SeqsUpTo(_, _)
SeqsUpTo(S, n) ==
    IF n = 0 THEN {<<>>}
    ELSE LET shorter == SeqsUpTo(S, n - 1)
         IN shorter \cup {<<x>> \o t : x \in S, t \in {u \in shorter : Len(u) = n - 1}}

ArgVectors ==
    {<<>>} \cup {<<t>> \o r : t \in Tokens, r \in SeqsUpTo(RestTokens, MaxArgs - 1)}

\* What the code the dispatcher calls does during one Exec: the handler
\* returns nil, returns its error or panics, or the writer fails.
Environments ==
    {[hres |-> h, wfail |-> FALSE] : h \in HandlerResults}
    \cup {[hres |-> "nil", wfail |-> TRUE]}


-----------------------------------------------------------------------------
(* The dispatcher's operations.  Each is the function from the current      *)
(* state and the call's arguments to what the call leaves behind.           *)

\* The ways a call can abort instead of returning.
Panics ==
    {"panic:name", "panic:usage", "panic:cmd", "panic:dup", "panic:execed",
     "panic:double", "panic:index", "panic:parse", "panic:handler"}

NoEvent ==
    [op |-> "none", name |-> Empty, title |-> Empty, usage |-> Empty, bound |-> 0,
     args |-> <<>>, route |-> "none", parsed |-> <<>>,
     calls |-> <<>>, lookups |-> 0, wrote |-> Empty, wfail |-> FALSE]

\* What a writer has received once text is written to writer w.
Received(w, had, to, text) == IF to = w THEN had \o text ELSE had

\* NewPlain without its test of opt.execed.
NewPlainOutcomeNoLatch(name, title, usage, exec) ==
    [result |-> "ok",
     commands |-> (name :> [exec |-> exec, title |-> title, usage |-> usage])
                  @@ [n \in DOMAIN commands \ {name} |-> commands[n]],
     maxCmdLen |-> IF Len(name) > maxCmdLen THEN Len(name) ELSE maxCmdLen,
     bound |-> 0]

\* NewPlain keeping the length of the name it was given last.
NewPlainOutcomeLastLen(name, title, usage, exec) ==
    IF execed
    THEN [result |-> "panic:execed", commands |-> commands, maxCmdLen |-> maxCmdLen,
          bound |-> 0]
    ELSE [result |-> "ok",
          commands |-> (name :> [exec |-> exec, title |-> title, usage |-> usage])
                       @@ [n \in DOMAIN commands \ {name} |-> commands[n]],
          maxCmdLen |-> Len(name),
          bound |-> 0]

\* NewPlain(name, title, usage, exec)
NewPlainOutcome(name, title, usage, exec) ==
    IF execed
    THEN [result |-> "panic:execed", commands |-> commands, maxCmdLen |-> maxCmdLen,
          bound |-> 0]
    ELSE [result |-> "ok",
          commands |-> (name :> [exec |-> exec, title |-> title, usage |-> usage])
                       @@ [n \in DOMAIN commands \ {name} |-> commands[n]],
          maxCmdLen |-> IF Len(name) > maxCmdLen THEN Len(name) ELSE maxCmdLen,
          bound |-> 0]

\* New(name, title, usage, cmd); bound counts the calls of cmd, which New makes
\* at line 118, before it calls NewPlain.
NewOutcome(name, title, usage, binder) ==
    IF name = Empty
    THEN [result |-> "panic:name", commands |-> commands, maxCmdLen |-> maxCmdLen,
          bound |-> 0]
    ELSE IF usage = Empty
    THEN [result |-> "panic:usage", commands |-> commands, maxCmdLen |-> maxCmdLen,
          bound |-> 0]
    ELSE IF binder.nil
    THEN [result |-> "panic:cmd", commands |-> commands, maxCmdLen |-> maxCmdLen,
          bound |-> 0]
    ELSE IF name \in DOMAIN commands
    THEN [result |-> "panic:dup", commands |-> commands, maxCmdLen |-> maxCmdLen,
          bound |-> 0]
    ELSE LET fs == NewFlagSet(binder.def)
             u1 == ReplaceAll(usage, FlagsPlaceholder, getFlags(fs))
             u2 == IF u1[Len(u1)] # "\n" THEN u1 \o <<"\n">> ELSE u1
         IN [NewPlainOutcome(name, title, u2,
                             [kind |-> "do2exec", do |-> binder.do, fs |-> fs,
                              w |-> output])
             EXCEPT !.bound = 1]

\* The exec a caller gives to NewPlain: it has no flag set of the dispatcher's.
PlainExec == [kind |-> "plain", do |-> "plain", fs |-> NewFlagSet(NoFlags), w |-> 0]

\* Usage(): buildUsage stores the text in opt.cmd.usage and returns it.
Usage == buildUsage(UsageTemplate, cmd.exec.fs, commands, maxCmdLen)

\* Did the exec closure call the top-level flag set's Usage, which renders
\* the usage into opt.cmd.usage?  A failed parse of the top-level flag set
\* does, and so does the Help handler called with no positional argument.
RenderedTop(args, route, r) ==
    \/ route = "top" /\ r.parsed # <<>> /\ r.parsed[1].err # "nil"
    \/ /\ route = "sub"
       /\ commands[args[1]].exec.do = "help"
       /\ r.calls # <<>>
       /\ r.calls[1].args = <<>>

\* Ran with ErrHelp swallowed in every branch.
RanSwallowsAll(args, route, lookups, r, swallowHelp) ==
    [result |-> IF r.result = "ErrHelp" THEN "nil" ELSE r.result,
     fs |-> r.fs,
     topUsage |-> RenderedTop(args, route, r),
     sink |-> Received(1, Received(1, sink, r.w, r.diag), output, r.out),
     sink2 |-> Received(2, Received(2, sink2, r.w, r.diag), output, r.out),
     event |-> [NoEvent EXCEPT !.op = "Exec", !.args = args, !.route = route,
                               !.parsed = r.parsed, !.calls = r.calls,
                               !.lookups = lookups]]

\* What Exec(args) leaves behind when it ran an exec closure, r being what
\* the closure did.
Ran(args, route, lookups, r, swallowHelp) ==
    [result |-> IF swallowHelp /\ r.result = "ErrHelp" THEN "nil" ELSE r.result,
     fs |-> r.fs,
     topUsage |-> RenderedTop(args, route, r),
     sink |-> Received(1, Received(1, sink, r.w, r.diag), output, r.out),
     sink2 |-> Received(2, Received(2, sink2, r.w, r.diag), output, r.out),
     event |-> [NoEvent EXCEPT !.op = "Exec", !.args = args, !.route = route,
                               !.parsed = r.parsed, !.calls = r.calls,
                               !.lookups = lookups]]

\* What Exec(args) leaves behind when it wrote text itself (the not-found branch).
Wrote(args, route, text, wfail) ==
    [result |-> IF wfail THEN "ErrWrite" ELSE "nil",
     fs |-> cmd.exec.fs,
     topUsage |-> route = "usage",
     sink |-> IF wfail THEN sink ELSE Received(1, sink, output, text),
     sink2 |-> IF wfail THEN sink2 ELSE Received(2, sink2, output, text),
     event |-> [NoEvent EXCEPT !.op = "Exec", !.args = args, !.route = route,
                               !.lookups = 1, !.wrote = text, !.wfail = wfail]]

\* Exec aborted before it routed anything.
Aborted(op, args, how) ==
    [result |-> how, fs |-> cmd.exec.fs, topUsage |-> FALSE, sink |-> sink,
     sink2 |-> sink2,
     event |-> [NoEvent EXCEPT !.op = op, !.args = args]]

\* Route with no top-level handler call for an empty vector: the usage is
\* written instead.
RouteEmptyWritesUsage(args, hres, wfail) ==
    IF Len(args) = 0
    THEN Wrote(args, "usage", Usage, wfail)
    ELSE IF args[1] = Empty
    THEN Aborted("Exec", args, "panic:index")
    ELSE IF args[1][1] = "-"
    THEN Ran(args, "top", 0, CallExec(cmd.exec, Top, Usage, args, hres), TRUE)
    ELSE IF args[1] \in DOMAIN commands
    THEN Ran(args, "sub", 1,
             CallExec(commands[args[1]].exec, Sub(args[1]), commands[args[1]].usage,
                      Tail(args), hres),
             FALSE)
    ELSE IF notFound
    THEN Wrote(args, "notfound", NotFoundText(args[1]), wfail)
    ELSE Wrote(args, "usage", Usage, wfail)

\* Route with the registry looked up before the flag prefix is tested.
RouteLooksUpFirst(args, hres, wfail) ==
    IF Len(args) = 0
    THEN Ran(args, "top", 0, CallExec(cmd.exec, Top, Usage, <<>>, hres), FALSE)
    ELSE IF args[1] = Empty
    THEN Aborted("Exec", args, "panic:index")
    ELSE IF args[1] \in DOMAIN commands
    THEN Ran(args, "sub", 1,
             CallExec(commands[args[1]].exec, Sub(args[1]), commands[args[1]].usage,
                      Tail(args), hres),
             FALSE)
    ELSE IF args[1][1] = "-"
    THEN Ran(args, "top", 0, CallExec(cmd.exec, Top, Usage, args, hres), TRUE)
    ELSE IF notFound
    THEN Wrote(args, "notfound", NotFoundText(args[1]), wfail)
    ELSE Wrote(args, "usage", Usage, wfail)

\* The routing of Exec(args), after the latch: hres is what the handler does
\* if it is called, wfail says that the writer fails.
Route(args, hres, wfail) ==
    IF Len(args) = 0
    THEN Ran(args, "top", 0, CallExec(cmd.exec, Top, Usage, <<>>, hres), FALSE)
    ELSE IF args[1] = Empty
    THEN Aborted("Exec", args, "panic:index")      \* name[0] of an empty string
    ELSE IF args[1][1] = "-"
    THEN Ran(args, "top", 0, CallExec(cmd.exec, Top, Usage, args, hres), TRUE)
    ELSE IF args[1] \in DOMAIN commands
    THEN Ran(args, "sub", 1,
             CallExec(commands[args[1]].exec, Sub(args[1]), commands[args[1]].usage,
                      Tail(args), hres),
             FALSE)
    ELSE IF notFound
    THEN Wrote(args, "notfound", NotFoundText(args[1]), wfail)
    ELSE Wrote(args, "usage", Usage, wfail)

\* Exec(args): the latch, then the routing.  A second call aborts before it
\* looks at its arguments.
ExecOutcome(args, hres, wfail) ==
    IF execed THEN Aborted("Exec2", <<>>, "panic:double") ELSE Route(args, hres, wfail)

-----------------------------------------------------------------------------
(* The state machine.                                                      *)

\* The constructor New(output, errorHandling, usageTemplate, cmd, notFound).
Init ==
    /\ errHandling \in ErrorHandlings
    /\ notFound \in BOOLEAN
    /\ \E b \in TopBinders :
         cmd = [exec |-> [kind |-> "do2exec",
                          do |-> IF b.nil THEN "noop" ELSE "top",
                          fs |-> NewFlagSet(b.def),
                          w |-> 1],
                usage |-> Empty]
    /\ commands = [n \in {} |-> 0]
    /\ maxCmdLen = 0
    /\ execed = FALSE
    /\ sink = Empty
    /\ output = 1
    /\ sink2 = Empty
    /\ result = "ok"
    /\ last = NoEvent

\* The registry holds at most MaxCmds entries in the model.
Room(name) == name \in DOMAIN commands \/ Cardinality(DOMAIN commands) < MaxCmds

\* The state after a registration call that was given name, title and usage,
\* o being what the call leaves behind.
Registered(op, name, title, usage, o) ==
    /\ commands' = o.commands
    /\ maxCmdLen' = o.maxCmdLen
    /\ result' = o.result
    /\ last' = [NoEvent EXCEPT !.op = op,
                               !.name = IF o.result \in {"ok", "panic:dup"} THEN name ELSE Empty,
                               !.title = IF o.result = "ok" THEN title ELSE Empty,
                               !.usage = IF o.result = "ok" THEN usage ELSE Empty,
                               !.bound = o.bound]
    /\ UNCHANGED <<cmd, execed, errHandling, notFound, sink, output, sink2>>

New(name, title, usage, binder) ==
    /\ Room(name)
    /\ Registered("New", name, title, usage, NewOutcome(name, title, usage, binder))

NewPlain(name, title, usage) ==
    /\ Room(name)
    /\ Registered("NewPlain", name, title, usage,
                  NewPlainOutcome(name, title, usage, PlainExec))

\* SetOutput(w)
SetOutput(w) ==
    /\ output' = w
    /\ result' = "ok"
    /\ last' = [NoEvent EXCEPT !.op = "SetOutput"]
    /\ UNCHANGED <<cmd, commands, maxCmdLen, execed, errHandling, notFound, sink, sink2>>

\* Help(opt, name, title, usage)
Help(name, title, usage) ==
    /\ Room(name)
    /\ Registered("Help", name, title, usage, NewOutcome(name, title, usage, HelpBinder))

\* Executed with the latch set only when the call returned.
ExecutedLatchOnReturn(args, o) ==
    /\ execed' = (execed \/ o.result \notin Panics)
    /\ result' = o.result
    /\ sink' = o.sink
    /\ sink2' = o.sink2
    /\ last' = o.event
    /\ commands' = IF o.event.route = "sub"
                   THEN [commands EXCEPT ![args[1]].exec.fs = o.fs]
                   ELSE commands
    /\ cmd' = [cmd EXCEPT !.exec.fs = IF o.event.route = "sub" THEN @ ELSE o.fs,
                          !.usage = IF o.topUsage THEN Usage ELSE @]
    /\ UNCHANGED <<maxCmdLen, errHandling, notFound, output>>

\* The state after Exec(args), o being what the call leaves behind.
Executed(args, o) ==
    /\ execed' = TRUE
    /\ result' = o.result
    /\ sink' = o.sink
    /\ sink2' = o.sink2
    /\ last' = o.event
    /\ commands' = IF o.event.route = "sub"
                   THEN [commands EXCEPT ![args[1]].exec.fs = o.fs]
                   ELSE commands
    /\ cmd' = [cmd EXCEPT !.exec.fs = IF o.event.route = "sub" THEN @ ELSE o.fs,
                          !.usage = IF o.topUsage THEN Usage ELSE @]
    /\ UNCHANGED <<maxCmdLen, errHandling, notFound, output>>

Exec(args, hres, wfail) == Executed(args, ExecOutcome(args, hres, wfail))

\* The calls a program makes, with their arguments drawn from the given sets.
NextOver(names, titles, argvs) ==
    \/ \E name \in names, title \in titles, usage \in NewUsages, binder \in Binders :
         New(name, title, usage, binder)
    \/ \E name \in names, title \in titles, usage \in PlainUsages :
         NewPlain(name, title, usage)
    \/ \E args \in argvs, env \in Environments :
         Exec(args, env.hres, env.wfail)

\* Dispatch: every argument vector, over the registries of "-v" and "b".
Next == NextOver({<<"-", "v">>, <<"b">>}, {<<"x">>}, ArgVectors)

Spec == Init /\ [][Next]_vars

\* Registration: every name and title, with four argument vectors.
NextReg == NextOver(Names, Titles, {<<>>, <<Empty>>, <<<<"b">>>>, <<<<"-", "h">>>>})

SpecReg == Init /\ [][NextReg]_vars

\* Help: the commands "h" and "b", the help command under either name, and
\* the vectors that begin with "h", whose other elements are "h", "b", the
\* unregistered "ab" and "-h"; the handlers' writer works or fails.
HelpCmdNames == {<<"h">>, <<"b">>}
HelpVectors ==
    {<<<<"a", "b">>>>, <<<<"b">>>>}
    \cup {<< <<"h">> >> \o r :
            r \in SeqsUpTo({<<"h">>, <<"b">>, <<"a", "b">>, <<"-", "h">>}, MaxArgs - 1)}
HelpEnvironments ==
    {[hres |-> "nil", wfail |-> FALSE], [hres |-> "ErrWrite", wfail |-> TRUE]}

NextHelp ==
    \/ \E name \in HelpCmdNames, usage \in NewUsages, binder \in Binders :
         New(name, <<"x">>, usage, binder)
    \/ \E name \in HelpCmdNames, usage \in PlainUsages :
         NewPlain(name, <<"x">>, usage)
    \/ \E name \in HelpCmdNames, title \in Titles, usage \in NewUsages :
         Help(name, title, usage)
    \/ \E args \in HelpVectors, env \in HelpEnvironments :
         Exec(args, env.hres, env.wfail)

SpecHelp == Init /\ [][NextHelp]_vars

\* Usage texts: the commands "b" and "ab" registered with the usage texts "",
\* "u\n{{flags}}", "{{flags}}\n" and "u".
UsageTexts ==
    {Empty, <<"u", "\n">> \o FlagsPlaceholder, FlagsPlaceholder \o <<"\n">>, <<"u">>}

NextUse ==
    \/ \E name \in {<<"b">>, <<"a", "b">>}, title \in Titles, usage \in UsageTexts,
          binder \in Binders :
         New(name, title, usage, binder)
    \/ \E name \in {<<"b">>, <<"a", "b">>}, title \in Titles, usage \in UsageTexts :
         NewPlain(name, title, usage)
    \/ \E args \in {<<>>, <<<<"b">>>>, <<<<"a">>>>}, env \in Environments :
         Exec(args, env.hres, env.wfail)

SpecUse == Init /\ [][NextUse]_vars

\* Output: the command "b", SetOutput with either writer at any time, and
\* every argument vector.
NextOut ==
    \/ \E usage \in NewUsages, binder \in Binders : New(<<"b">>, <<"x">>, usage, binder)
    \/ \E usage \in PlainUsages : NewPlain(<<"b">>, <<"x">>, usage)
    \/ \E w \in {1, 2} : SetOutput(w)
    \/ \E args \in ArgVectors, env \in Environments : Exec(args, env.hres, env.wfail)

SpecOut == Init /\ [][NextOut]_vars

-----------------------------------------------------------------------------
(* The claims.                                                             *)

\* What the handler of a call record returned to its caller.
Returned(call) == IF call.ret = "panic" THEN "panic:handler" ELSE call.ret

\* The orders in which a range over a map with these keys can give them.
Orders(keys) ==
    {p \in [1..Cardinality(keys) -> keys] : \A i, j \in DOMAIN p : i # j => p[i] # p[j]}

\* C1: every step of Exec, whatever it did (returned nil or an error, took
\* the not-found branch, or panicked in a handler, in the parser or on its
\* own), leaves the latch set; the latch is never reset; and an Exec called
\* with the latch set aborts with the double-dispatch panic and touches
\* nothing else.
C1_SecondExecPanics ==
    [][/\ execed => execed'
       /\ last'.op \in {"Exec", "Exec2"} =>
            /\ execed'
            /\ execed => /\ result' = "panic:double"
                         /\ last'.op = "Exec2"
                         /\ UNCHANGED <<cmd, commands, maxCmdLen, sink, output, sink2>>]_vars

\* C1 witness: a second Exec was made on a dispatcher and aborted.
C1_Witness == last.op = "Exec2" /\ result = "panic:double" /\ execed

\* C2 (as claimed): a registration under a name that is already in the
\* registry, through New or NewPlain, aborts with the duplicate-name panic
\* and leaves the registry as it was.
C2_DuplicateAlwaysPanics ==
    [][(/\ last'.op \in {"New", "NewPlain"}
        /\ result' \in {"ok", "panic:dup"}
        /\ last'.name \in DOMAIN commands)
       => (result' = "panic:dup" /\ commands' = commands)]_vars

\* C3: Commands() is the same sequence for every order in which the map yields
\* its keys; it holds exactly the registered names, each once, and is strictly
\* ascending in the bytewise order of strings.
C3_CommandsSorted ==
    LET cs == Commands(commands) IN
    /\ \A p \in Orders(DOMAIN commands) : SortStrings(p) = cs
    /\ Len(cs) = Cardinality(DOMAIN commands)
    /\ {cs[i] : i \in DOMAIN cs} = DOMAIN commands
    /\ \A i \in 1..(Len(cs) - 1) : StrLess(cs[i], cs[i + 1])

\* C3 witness: "b" was registered first and "ab" after it, and Commands()
\* gives "ab" before "b".
C3_Witness ==
    /\ last.op \in {"New", "NewPlain"} /\ result = "ok" /\ last.name = <<"a", "b">>
    /\ DOMAIN commands = {<<"a", "b">>, <<"b">>}
    /\ Commands(commands) = << <<"a", "b">>, <<"b">> >>

\* C4: after Exec with an empty vector exactly one handler was called, the
\* top-level one; the sink holds that handler's output and nothing else; the
\* registry was not consulted; and the call ended as the handler ended.
C4_EmptyArgsRunTop ==
    (last.op = "Exec" /\ last.args = <<>>) =>
        /\ Len(last.calls) = 1
        /\ last.calls[1].who = Top
        /\ last.lookups = 0
        /\ last.wrote = Empty
        /\ sink = (IF cmd.exec.do = "noop" THEN Empty ELSE DoText(Top))
        /\ result = Returned(last.calls[1])

\* C4 witness: Exec(<<>>) ran the configured top-level handler, which wrote
\* "def" and returned its error.
C4_Witness ==
    /\ last.op = "Exec" /\ last.args = <<>>
    /\ sink = <<"d", "e", "f">>
    /\ result = "ErrDo"
    /\ DOMAIN commands # {}

\* The first element of the vector begins with the flag prefix.
FlagFirst(args) == args # <<>> /\ HasPrefix(args[1], <<"-">>)

\* Every flag of the flag set still has its default value.
AtDefaults(fs) == fs.vals = NewFlagSet(fs.def).vals

\* What the flag set wrote for a Parse that ended with err, usage being the
\* text of its Usage callback.
Told(err, usage) ==
    IF err = "nil" THEN Empty
    ELSE (IF err = "ErrParse" THEN FlagErrText ELSE Empty) \o usage

\* C5: after Exec with a vector whose first element begins with "-", the whole
\* vector was parsed by the top-level flag set and by no other; the registry
\* was not consulted; the top-level handler ran once, after the parse, when
\* the parse succeeded, and no handler ran otherwise; no subcommand's flag
\* changed; Exec wrote nothing itself, so the sink holds what the flag set
\* wrote on a failed parse followed by the handler's output and neither the
\* not-found text nor the fallback.
C5_FlagFirstRunsTop ==
    (last.op = "Exec" /\ FlagFirst(last.args)) =>
        /\ last.route = "top"
        /\ last.lookups = 0
        /\ last.wrote = Empty
        /\ Len(last.parsed) = 1
        /\ last.parsed[1].who = Top
        /\ last.parsed[1].args = last.args
        /\ Len(last.calls) = (IF last.parsed[1].err = "nil" THEN 1 ELSE 0)
        /\ \A i \in DOMAIN last.calls :
             /\ last.calls[i].who = Top
             /\ last.calls[i].vals = cmd.exec.fs.vals
        /\ \A n \in DOMAIN commands : AtDefaults(commands[n].exec.fs)
        /\ sink = Told(last.parsed[1].err, Usage)
                  \o (IF last.calls # <<>> /\ cmd.exec.do # "noop" THEN DoText(Top) ELSE Empty)

\* C5 witness: with "-v" registered as a command, Exec(<<"-v">>) went to the
\* top-level flag set, which does not know -v.
C5_Witness ==
    /\ last.op = "Exec" /\ last.args = << <<"-", "v">> >>
    /\ <<"-", "v">> \in DOMAIN commands
    /\ last.route = "top"
    /\ last.parsed[1].err = "ErrParse"

\* C5 second case reached: Exec(<<"-i=5">>) set the top-level flag i to 5 and
\* then ran the top-level handler, which wrote "def".
C5_ParsedThenRan ==
    /\ last.op = "Exec" /\ last.args = << <<"-", "i", "=", "5">> >>
    /\ cmd.exec.fs.def = IntFlag
    /\ cmd.exec.fs.vals[<<"i">>] = 5
    /\ last.calls # <<>>
    /\ last.calls[1].vals[<<"i">>] = 5
    /\ sink = <<"d", "e", "f">>
    /\ result = "nil"

\* What C6 says of Exec(args) for the registered name args[1]: the route is the
\* subcommand's; a command registered through New had Tail(args) parsed by its
\* own flag set and, when that succeeded, its handler called once with the
\* parsed values; a command registered through NewPlain had its exec called
\* once with Tail(args); no other handler ran; the top-level flag set and the
\* flag sets of the other commands are at their defaults.
RanOwn(name) ==
    LET e == commands[name].exec
    IN /\ last.route = "sub"
       /\ \A i \in DOMAIN last.calls : last.calls[i].who = Sub(name)
       /\ e.kind = "do2exec" =>
            /\ Len(last.parsed) = 1
            /\ last.parsed[1].who = Sub(name)
            /\ last.parsed[1].args = Tail(last.args)
            /\ Len(last.calls) = (IF last.parsed[1].err = "nil" THEN 1 ELSE 0)
            /\ \A i \in DOMAIN last.calls : last.calls[i].vals = e.fs.vals
       /\ e.kind = "plain" =>
            /\ last.parsed = <<>>
            /\ Len(last.calls) = 1
            /\ last.calls[1].args = Tail(last.args)
       /\ AtDefaults(cmd.exec.fs)
       /\ \A n \in DOMAIN commands \ {name} : AtDefaults(commands[n].exec.fs)

\* C6: after Exec with a vector whose first element is a registered name, that
\* command's flag set parsed the rest of the vector, then its handler ran once,
\* and nothing else ran or changed.
C6_RegisteredRunsOwn ==
    (last.op = "Exec" /\ last.args # <<>> /\ last.args[1] \in DOMAIN commands)
        => RanOwn(last.args[1])

\* The same for the registered names that are not empty and do not begin
\* with "-".
C6_PlainNameRunsOwn ==
    (/\ last.op = "Exec" /\ last.args # <<>> /\ last.args[1] \in DOMAIN commands
     /\ last.args[1] # Empty /\ ~FlagFirst(last.args))
        => RanOwn(last.args[1])

\* Reached: Exec(<<"b", "-v">>) set the flag v of "b" only and the handler of
\* "b" saw it set.
C6_BareBoolSeenTrue ==
    /\ last.op = "Exec" /\ last.args = << <<"b">>, <<"-", "v">> >>
    /\ last.calls # <<>>
    /\ last.calls[1].vals = (<<"v">> :> TRUE)
    /\ <<"-", "v">> \in DOMAIN commands
    /\ sink = <<"c", "=", "b">>

\* What C7 says of Exec(args) for a name that is not registered: no flag set
\* parsed, no handler ran, the text written is notFound(name) or Usage(), the
\* sink holds exactly that text, and the result is nil unless the write failed.
FellBack(name) ==
    /\ last.calls = <<>>
    /\ last.parsed = <<>>
    /\ last.wrote = (IF notFound THEN NotFoundText(name) ELSE Usage)
    /\ sink = (IF last.wfail THEN Empty ELSE last.wrote)
    /\ result = (IF last.wfail THEN "ErrWrite" ELSE "nil")

\* C7: after Exec with a vector whose first element does not begin with "-" and
\* is not registered, no handler ran, the sink holds exactly notFound(args[0])
\* or, with no formatter, exactly Usage(), and the result is nil unless the
\* write failed.
C7_UnknownNameFallsBack ==
    (/\ last.op = "Exec" /\ last.args # <<>>
     /\ ~FlagFirst(last.args) /\ last.args[1] \notin DOMAIN commands)
        => FellBack(last.args[1])

\* The same for the names that are not empty.
C7_UnknownNonEmptyFallsBack ==
    (/\ last.op = "Exec" /\ last.args # <<>> /\ last.args[1] # Empty
     /\ ~FlagFirst(last.args) /\ last.args[1] \notin DOMAIN commands)
        => FellBack(last.args[1])

\* Reached: with no formatter and "-v" registered, Exec(<<"b">>) wrote the
\* rendered usage, which lists "-v".
C7_WroteUsage ==
    /\ last.op = "Exec" /\ last.args = << <<"b">> >>
    /\ ~notFound
    /\ DOMAIN commands = {<<"-", "v">>}
    /\ sink = Usage
    /\ Len(sink) > Len(UsageTemplate)
    /\ result = "nil"

\* The values Exec returns, and the aborts that are its collaborators': the
\* handler's own panic and the flag package's under flag.PanicOnError.
ExecResults ==
    {"nil", "ErrHelp", "ErrParse", "ErrDo", "ErrWrite", "panic:handler", "panic:parse"}

\* Exec took exactly one route.
OneRoute ==
    /\ last.route \in {"top", "sub", "notfound", "usage"}
    /\ last.route = "top" =>
         /\ last.wrote = Empty /\ last.lookups = 0
         /\ \A i \in DOMAIN last.calls : last.calls[i].who = Top
    /\ last.route = "sub" =>
         /\ last.wrote = Empty
         /\ \A i \in DOMAIN last.calls : last.calls[i].who = Sub(last.args[1])
    /\ last.route \in {"notfound", "usage"} => last.calls = <<>>
    /\ Len(last.calls) <= 1

\* C8: after the first Exec, whatever the vector, exactly one route was taken
\* and the result is nil or the error of a parse, a handler or the write; Exec
\* itself did not abort.
C8_ExecNeverAborts ==
    last.op = "Exec" => (OneRoute /\ result \in ExecResults)

\* The same for the vectors whose first element is not the empty string.
C8_NonEmptyNameNeverAborts ==
    (last.op = "Exec" /\ (last.args = <<>> \/ last.args[1] # Empty))
        => (OneRoute /\ result \in ExecResults)

\* Reached: Exec(<<"">>) aborted on name[0].
C8_IndexPanic ==
    /\ last.op = "Exec" /\ last.args = <<Empty>>
    /\ result = "panic:index"
    /\ last.route = "none"
    /\ sink = Empty
    /\ execed

\* C9: after an Exec in which a flag set's Parse ended with an error, under
\* flag.ContinueOnError the result in the top-level branch is nil for ErrHelp
\* and the parse error itself otherwise, and in the subcommand branch it is
\* the parse error, ErrHelp included; under flag.PanicOnError Parse panics in
\* both branches.
C9_HelpSwallowedOnlyAtTop ==
    (last.op = "Exec" /\ last.parsed # <<>> /\ last.parsed[1].err # "nil") =>
        IF errHandling = "PanicOnError"
        THEN result = "panic:parse"
        ELSE IF last.route = "top"
        THEN result = (IF last.parsed[1].err = "ErrHelp" THEN "nil" ELSE last.parsed[1].err)
        ELSE last.route = "sub" /\ result = last.parsed[1].err

\* C9 witness: Exec(<<"b", "-h">>) returned ErrHelp.
C9_Witness ==
    /\ last.op = "Exec" /\ last.args = << <<"b">>, <<"-", "h">> >>
    /\ last.route = "sub"
    /\ last.parsed # <<>>
    /\ last.parsed[1].err = "ErrHelp"
    /\ result = "ErrHelp"

\* Reached: Exec(<<"-h">>) returned nil after the top-level flag set's Parse
\* ended with ErrHelp, and Exec(<<"-v">>) returned the parse error.
C9_TopHelpSwallowed ==
    /\ last.op = "Exec" /\ last.args = << <<"-", "h">> >>
    /\ last.route = "top"
    /\ last.parsed[1].err = "ErrHelp"
    /\ result = "nil"

C9_TopParseErrorReturned ==
    /\ last.op = "Exec" /\ last.args = << <<"-", "v">> >>
    /\ last.route = "top"
    /\ last.parsed[1].err = "ErrParse"
    /\ result = "ErrParse"

\* C10: after an Exec that parsed flags, the handler ran (once, the parsing
\* command's) if and only if the parse succeeded; in the subcommand branch the
\* result is the parse error when the parse failed (the panic carrying it
\* under flag.PanicOnError) and what the handler returned otherwise.
C10_ParseFailureSkipsHandler ==
    (last.op = "Exec" /\ last.parsed # <<>>) =>
        /\ last.parsed[1].err # "nil" => last.calls = <<>>
        /\ last.parsed[1].err = "nil" =>
             /\ Len(last.calls) = 1
             /\ last.calls[1].who = last.parsed[1].who
        /\ last.route = "sub" =>
             result = (IF last.parsed[1].err = "nil" THEN Returned(last.calls[1])
                       ELSE IF errHandling = "PanicOnError" THEN "panic:parse"
                       ELSE last.parsed[1].err)

\* C10 witness: the flag set of "b" rejected -i=5, Exec returned that error and
\* the handler of "b" did not run.
C10_Witness ==
    /\ last.op = "Exec" /\ last.args = << <<"b">>, <<"-", "i", "=", "5">> >>
    /\ last.route = "sub"
    /\ last.parsed # <<>>
    /\ last.parsed[1].err = "ErrParse"
    /\ result = "ErrParse"
    /\ last.calls = <<>>
    /\ sink = FlagErrText \o commands[<<"b">>].usage

\* Reached: after a successful parse Exec returned the error of the handler
\* of "b".
C10_HandlerErrorReturned ==
    /\ last.op = "Exec" /\ last.args = << <<"b">>, <<"-", "v">> >>
    /\ last.parsed # <<>>
    /\ last.parsed[1].err = "nil"
    /\ Len(last.calls) = 1
    /\ result = "ErrDo"

\* Does the string s contain the string part?
Contains(s, part) ==
    \E i \in 0..(Len(s) - Len(part)) : SubSeq(s, i + 1, i + Len(part)) = part

\* The last Exec called the handler of the command registered by Help, and
\* that handler's writer worked.
HelpRan ==
    /\ last.op = "Exec" /\ last.route = "sub"
    /\ commands[last.args[1]].exec.do = "help"
    /\ last.calls # <<>>
    /\ ~last.calls[1].fails

\* C11: when the Help handler ran with no positional argument the sink holds
\* exactly Usage(), in which every registered name, the help command's
\* included, is listed with its title; when its first positional argument is
\* a registered name the sink holds exactly that command's usage text; in both
\* cases Exec returned nil and no other handler ran.
C11_HelpShowsUsage ==
    HelpRan =>
        LET pos == last.calls[1].args IN
        /\ Len(last.calls) = 1
        /\ last.calls[1].who = Sub(last.args[1])
        /\ pos = <<>> =>
             /\ sink = Usage
             /\ result = "nil"
             /\ \A n \in DOMAIN commands :
                  Contains(sink, <<" ", " ">> \o n \o <<" ", " ", " ">>)
                  /\ Contains(sink, <<" ">> \o commands[n].title \o <<"\n">>)
        /\ (pos # <<>> /\ pos[1] \in DOMAIN commands) =>
             /\ sink = commands[pos[1]].usage
             /\ result = "nil"

\* C11 witness: Exec(<<"h", "b">>) wrote the usage text of "b", which differs
\* from its title.
C11_Witness ==
    /\ HelpRan
    /\ last.args = << <<"h">>, <<"b">> >>
    /\ <<"b">> \in DOMAIN commands
    /\ sink = commands[<<"b">>].usage
    /\ sink # commands[<<"b">>].title
    /\ sink # Empty

\* Reached: Exec(<<"h">>) wrote the rendered usage, which lists "b" and "h".
C11_ListedItself ==
    /\ HelpRan
    /\ last.args = << <<"h">> >>
    /\ DOMAIN commands = {<<"b">>, <<"h">>}
    /\ sink = Usage
    /\ Contains(sink, <<" ", " ", "h", " ", " ", " ">> \o commands[<<"h">>].title)

\* The Help handler ran with a first positional argument that is not a
\* registered name.
HelpMissed ==
    /\ last.op = "Exec" /\ last.route = "sub"
    /\ commands[last.args[1]].exec.do = "help"
    /\ last.calls # <<>>
    /\ last.calls[1].args # <<>>
    /\ last.calls[1].args[1] \notin DOMAIN commands

\* What the dispatcher's own not-found branch leaves for name: the text of
\* notFound(name), or Usage() with no formatter, and nil unless the write
\* failed.
SameAsNotFound(name) ==
    /\ sink = (IF last.calls[1].fails THEN Empty
               ELSE IF notFound THEN NotFoundText(name) ELSE Usage)
    /\ result = (IF last.calls[1].fails THEN "ErrWrite" ELSE "nil")

\* C12: when the Help handler ran for a name that is not registered, the sink
\* and the result are those of the dispatcher's not-found branch for that
\* name, with a formatter and without one.
C12_HelpMissSameAsNotFound ==
    HelpMissed => SameAsNotFound(last.calls[1].args[1])

\* The same for the dispatchers that have a not-found formatter.
C12_HelpMissWithFormatter ==
    (HelpMissed /\ notFound) => SameAsNotFound(last.calls[1].args[1])

\* Reached: with no formatter, Exec(<<"h", "ab">>) panicked inside the Help
\* handler and wrote nothing.
C12_NilFormatterPanics ==
    /\ HelpMissed
    /\ ~notFound
    /\ last.args = << <<"h">>, <<"a", "b">> >>
    /\ result = "panic:handler"
    /\ sink = Empty

\* The first line of a text: what precedes its first newline.
RECURSIVE FirstLine(_)
FirstLine(s) ==
    IF s = <<>> \/ Head(s) = "\n" THEN <<>> ELSE <<Head(s)>> \o FirstLine(Tail(s))

\* C13: no registration through New that was given a usage text with
\* {{flags}} in its first line succeeded: it aborted and added no entry.
C13_FlagsInFirstLineRejected ==
    (last.op \in {"New", "Help"} /\ result = "ok")
        => ~Contains(FirstLine(last.usage), FlagsPlaceholder)

\* Reached: New("b", "x", "{{flags}}\n", binder of -v) returned and stored the
\* flag listing as the usage of "b".
C13_FirstLineAccepted ==
    /\ last.op = "New" /\ result = "ok"
    /\ last.name = <<"b">>
    /\ last.usage = FlagsPlaceholder \o <<"\n">>
    /\ commands[<<"b">>].usage = <<" ", " ", "-", "v", "\t", "v", "\n", "\n">>

\* The usage templates the rendering is checked for: the dispatcher's own, "",
\* "{{commands}}" and "{{commands}}{{flags}}{{commands}}\n".
Templates ==
    {UsageTemplate, Empty, CommandsPlaceholder,
     CommandsPlaceholder \o FlagsPlaceholder \o CommandsPlaceholder \o <<"\n">>}

\* s followed by spaces up to the width w.
PadTo(s, w) == s \o [i \in 1..(w - Len(s)) |-> " "]

\* The line of the command list for a registered name.
CommandLine(n) ==
    <<" ", " ">> \o PadTo(n, maxCmdLen + 3) \o commands[n].title \o <<"\n">>

\* The lines of the names of a sequence, one after the other.
RECURSIVE LinesOf(_)
LinesOf(names) ==
    IF names = <<>> THEN <<>> ELSE CommandLine(Head(names)) \o LinesOf(Tail(names))

\* The template with its placeholders replaced.
Substituted(tpl) ==
    ReplaceAll(ReplaceAll(tpl, FlagsPlaceholder, PrintDefaults(cmd.exec.fs)),
               CommandsPlaceholder, LinesOf(Commands(commands)))

\* s, with a newline added when it is not empty and does not end with one.
WithFinalNewline(s) == IF s # <<>> /\ s[Len(s)] # "\n" THEN s \o <<"\n">> ELSE s

\* Every title of the command list starts in the same column.
TitlesAligned ==
    \A n \in DOMAIN commands : Len(PadTo(n, maxCmdLen + 3)) = maxCmdLen + 3

\* C14 as stated: for every template, the rendered usage is the template with
\* every {{flags}} replaced by the top-level flag listing and every
\* {{commands}} by the command lines, in Commands() order, each made of two
\* spaces, the name padded to maxCmdLen + 3, the title and a newline.
C14_UsageIsTemplateSubstituted ==
    /\ TitlesAligned
    /\ \A tpl \in Templates :
         buildUsage(tpl, cmd.exec.fs, commands, maxCmdLen) = Substituted(tpl)

\* C14 amended: the rendered usage is that text with a newline added when it
\* is not empty and does not end with one; Usage() renders the dispatcher's
\* own template so.
C14_UsageIsTemplateSubstitutedLn ==
    /\ TitlesAligned
    /\ \A tpl \in Templates :
         buildUsage(tpl, cmd.exec.fs, commands, maxCmdLen)
             = WithFinalNewline(Substituted(tpl))
    /\ Usage = WithFinalNewline(Substituted(UsageTemplate))

\* C14 witness: with "-v" titled "x" and "ab" titled "yy" registered and no
\* top-level flag, Exec(<<"b">>) wrote "H\n  -v   x\n  ab   yy\nF\n".
C14_Witness ==
    /\ last.op = "Exec" /\ last.route = "usage"
    /\ DOMAIN commands = {<<"-", "v">>, <<"a", "b">>}
    /\ sink = <<"H", "\n",
                " ", " ", "-", "v", " ", " ", " ", "x", "\n",
                " ", " ", "a", "b", " ", " ", " ", "y", "y", "\n",
                "F", "\n">>
    /\ sink = Usage

\* C15: every entry of the registry has a non-empty name and a non-empty
\* usage text, and no registration that was given an empty name or an empty
\* usage text succeeded.
C15_EntriesNonEmpty ==
    /\ \A n \in DOMAIN commands : n # Empty /\ commands[n].usage # Empty
    /\ (last.op \in {"New", "NewPlain", "Help"} /\ result = "ok")
           => (last.name # Empty /\ last.usage # Empty)

\* The same for the registrations through New alone: the call that succeeded
\* was given a name, a usage text and a binder, and stored a usage text.
C15_NewEntriesNonEmpty ==
    (last.op \in {"New", "Help"} /\ result = "ok") =>
        /\ last.name # Empty /\ last.usage # Empty
        /\ last.bound = 1
        /\ commands[last.name].usage # Empty
        /\ commands[last.name].exec.kind = "do2exec"

\* Reached: NewPlain("", "x", "", exec) returned and the registry holds an
\* entry with the empty name and the empty usage text.
C15_EmptyEntry ==
    /\ last.op = "NewPlain" /\ result = "ok"
    /\ Empty \in DOMAIN commands
    /\ commands[Empty].usage = Empty
    /\ Commands(commands)[1] = Empty

\* The last call was an Exec, made while the writer given to SetOutput was the
\* dispatcher's output.
ExecAfterSetOutput == last.op = "Exec" /\ output = 2

\* The flag set that parsed in the last Exec printed its own message.
Diagnosed == last.parsed # <<>> /\ last.parsed[1].err = "ErrParse"

\* C16: after an Exec that followed SetOutput(w), the constructor's writer has
\* received nothing and w has received what Exec wrote itself, the message and
\* the usage text of a failed parse, and the handler's output.
C16_AllOutputToNewWriter ==
    ExecAfterSetOutput =>
        /\ sink = Empty
        /\ ~last.wfail => HasPrefix(sink2, last.wrote)
        /\ Diagnosed => HasPrefix(sink2, FlagErrText)
        /\ (last.parsed # <<>> /\ last.parsed[1].err = "ErrHelp") => sink2 # Empty

\* What does go to w: the text Exec writes itself and the usage text a flag
\* set's Usage writes; and the constructor's writer receives nothing but the
\* messages of the flag sets created while it was the output.
C16_AllButDiagnostics ==
    ExecAfterSetOutput =>
        /\ ~last.wfail => HasPrefix(sink2, last.wrote)
        /\ (last.parsed # <<>> /\ last.parsed[1].err = "ErrHelp") => sink2 # Empty
        /\ ~Diagnosed => sink = Empty
        /\ Diagnosed => (sink \in {Empty, FlagErrText} /\ sink2 # Empty)

\* Reached: "b" was registered before SetOutput; Exec(<<"b", "-i=5">>) then
\* sent the message of the failed parse to the constructor's writer and the
\* usage text of "b" to the new one.
C16_DiagnosticToOldWriter ==
    /\ ExecAfterSetOutput
    /\ last.args = << <<"b">>, <<"-", "i", "=", "5">> >>
    /\ Diagnosed
    /\ sink = FlagErrText
    /\ sink2 = commands[<<"b">>].usage

\* Reached: as in the test, Exec(<<"b">>) after SetOutput wrote the handler's
\* output to the new writer only.
C16_HandlerToNewWriter ==
    /\ ExecAfterSetOutput
    /\ last.args = << <<"b">> >>
    /\ last.calls # <<>>
    /\ sink = Empty
    /\ sink2 = <<"c", "=", "b">>

\* The names Command is asked for: "", "-v", "a", "ab" and "b".
AskedNames == Names \cup {<<"a">>}

\* Command(name) finds exactly the registered names and returns ("", "", false)
\* for the others.
FoundIffRegistered ==
    \A n \in AskedNames :
        LET c == Command(commands, n) IN
        /\ c.found = (n \in DOMAIN commands)
        /\ ~c.found => (c.title = Empty /\ c.usage = Empty)

\* The last call registered a command with a usage text that holds no
\* placeholder.
RegisteredPlainText ==
    /\ last.op \in {"New", "NewPlain", "Help"} /\ result = "ok"
    /\ ~Contains(last.usage, FlagsPlaceholder)

\* C17: Command(name) finds exactly the registered names, and after a
\* registration whose usage text holds no placeholder it returns the title and
\* the usage text that were passed to that call.
C17_CommandReturnsAsRegistered ==
    /\ FoundIffRegistered
    /\ RegisteredPlainText =>
         Command(commands, last.name)
             = [title |-> last.title, usage |-> last.usage, found |-> TRUE]

\* What does hold: the title is the one passed; the usage text is the one
\* passed to NewPlain, and the one passed to New with a newline added when it
\* does not end with one.
C17_CommandReturnsStored ==
    /\ FoundIffRegistered
    /\ RegisteredPlainText =>
         Command(commands, last.name)
             = [title |-> last.title,
                usage |-> IF last.op = "NewPlain" THEN last.usage
                          ELSE WithFinalNewline(last.usage),
                found |-> TRUE]

\* Reached: after New("b", "x", "u", binder), Command("b") returns the usage
\* text "u\n".
C17_NewlineAdded ==
    /\ last.op = "New" /\ result = "ok"
    /\ last.name = <<"b">> /\ last.usage = <<"u">>
    /\ Command(commands, <<"b">>).usage = <<"u", "\n">>

\* C18: after Exec with the empty vector the top-level handler has run when
\* the constructor was given one, and the sink holds the rendered usage when
\* it was given none.
C18_EmptyArgsVisible ==
    (last.op = "Exec" /\ last.args = <<>>) =>
        IF cmd.exec.do = "noop"
        THEN sink = Usage
        ELSE Len(last.calls) = 1 /\ last.calls[1].who = Top /\ sink = DoText(Top)

\* Reached: the constructor was given no handler; Exec(<<>>) returned nil and
\* wrote nothing.
C18_NothingWritten ==
    /\ last.op = "Exec" /\ last.args = <<>>
    /\ cmd.exec.do = "noop"
    /\ Len(last.calls) = 1
    /\ result = "nil"
    /\ sink = Empty
    /\ Usage # Empty

\* C19: no registered name begins with "-", and Exec with the one-element
\* vector of a registered name runs that command.
C19_NoFlagLikeNames ==
    /\ \A n \in DOMAIN commands : ~HasPrefix(n, <<"-">>)
    /\ (last.op = "Exec" /\ Len(last.args) = 1 /\ last.args[1] \in DOMAIN commands) =>
         /\ last.route = "sub"
         /\ \A i \in DOMAIN last.calls : last.calls[i].who = Sub(last.args[1])

\* Reached: New("-v", "x", "u\n{{flags}}", binder) returned and Commands()
\* lists "-v".
C19_FlagLikeNameRegistered ==
    /\ last.op = "New" /\ result = "ok"
    /\ last.name = <<"-", "v">>
    /\ Listed(Commands(commands), <<"-", "v">>)

\* The registry holds the flags the binder bound, and the stored usage text
\* lists them where the placeholder was.
BoundBeforeSubstitution ==
    /\ commands[last.name].exec.fs.def # NoFlags
    /\ Contains(last.usage, FlagsPlaceholder) =>
         Contains(commands[last.name].usage, PrintDefaults(commands[last.name].exec.fs))

\* C20: a call of New invoked the binder once when it succeeded, with the
\* flags it bound listed in the stored usage text, and not at all when it
\* aborted; Exec did not invoke it.
C20_BinderOncePerRegistration ==
    /\ last.op = "New" => last.bound = (IF result = "ok" THEN 1 ELSE 0)
    /\ (last.op = "New" /\ result = "ok") => BoundBeforeSubstitution
    /\ last.op \in {"Exec", "NewPlain"} => last.bound = 0

\* The same, but for the calls of New made after Exec has run.
C20_BinderOnceBeforeExec ==
    /\ (last.op = "New" /\ result # "panic:execed")
           => last.bound = (IF result = "ok" THEN 1 ELSE 0)
    /\ (last.op = "New" /\ result = "ok") => BoundBeforeSubstitution
    /\ last.op \in {"Exec", "NewPlain"} => last.bound = 0

\* Reached: a call of New after Exec invoked the binder and then panicked,
\* leaving the registry empty.
C20_BoundThenPanicked ==
    /\ last.op = "New"
    /\ execed
    /\ result = "panic:execed"
    /\ last.bound = 1
    /\ DOMAIN commands = {}

\* A call of New or NewPlain was made in this step.
RegistrationStep == last'.op \in {"New", "NewPlain"}

\* Commands(), every Command(name) result and maxCmdLen are as before the step.
RegistryUnchanged ==
    /\ Commands(commands') = Commands(commands)
    /\ \A n \in Names \cup DOMAIN commands \cup DOMAIN commands' :
          Command(commands', n) = Command(commands, n)
    /\ maxCmdLen' = maxCmdLen

\* C21: once Exec has been called, every call of New or NewPlain, whatever
\* its arguments, panics and leaves Commands(), every Command(name) result
\* and maxCmdLen as they were immediately before the call.
C21_FrozenAfterExec ==
    [][(execed /\ RegistrationStep) => (result' \in Panics /\ RegistryUnchanged)]_vars

\* C21 witness: after Exec, with "b" registered, a call of NewPlain panicked
\* and the registry still holds "b" alone.
C21_Witness ==
    /\ execed
    /\ last.op = "NewPlain"
    /\ result = "panic:execed"
    /\ Commands(commands) = <<<<"b">>>>
    /\ maxCmdLen = 1

\* Reached: after Exec a call of New panicked on NewPlain's test, and another
\* on its own test of the name.
C21_NewRefused ==
    /\ execed /\ last.op = "New" /\ result = "panic:execed"
    /\ Commands(commands) = <<<<"b">>>>

C21_NewRefusedByName ==
    /\ execed /\ last.op = "New" /\ result = "panic:name"
    /\ Commands(commands) = <<<<"b">>>>

\* The greatest length among the names of the registry, 0 when it is empty.
LongestName ==
    IF DOMAIN commands = {} THEN 0
    ELSE CHOOSE l \in {Len(n) : n \in DOMAIN commands} :
           \A n \in DOMAIN commands : Len(n) <= l

\* The count buildUsage passes to strings.Repeat for a name.
PaddingCount(n) == maxCmdLen + 3 - Len(n)

\* C22: maxCmdLen is the greatest length among the registered names, 0 for
\* the empty registry; so the padding count of every registered name is at
\* least 3, and the rendered usage holds each name followed by that many
\* spaces and its title.
C22_MaxLenIsLongestName ==
    /\ maxCmdLen = LongestName
    /\ \A n \in DOMAIN commands :
         /\ PaddingCount(n) >= 3
         /\ Contains(Usage, <<" ", " ">> \o n \o [i \in 1..PaddingCount(n) |-> " "]
                                \o commands[n].title \o <<"\n">>)

\* C22 witness: with "ab" and "b" registered, maxCmdLen is 2 and Exec(<<"-h">>)
\* wrote the usage, in which "b" is followed by four spaces and "ab" by three.
C22_Witness ==
    /\ last.op = "Exec" /\ last.args = <<<<"-", "h">>>>
    /\ DOMAIN commands = {<<"a", "b">>, <<"b">>}
    /\ maxCmdLen = 2
    /\ PaddingCount(<<"b">>) = 4
    /\ Contains(sink, <<" ", " ", "b", " ", " ", " ", " ">> \o commands[<<"b">>].title)
    /\ Contains(sink, <<" ", " ", "a", "b", " ", " ", " ">> \o commands[<<"a", "b">>].title)

\* Reached: a name was registered a second time, by NewPlain, and maxCmdLen
\* stayed the length of the longer name registered before it.
C22_ShorterNameLater ==
    /\ last.op = "NewPlain" /\ result = "ok"
    /\ last.name = <<"b">>
    /\ DOMAIN commands = {<<"a", "b">>, <<"b">>}
    /\ maxCmdLen = 2
====
